---- MODULE Spec2Model ----
(***************************************************************************)
(* A model of script.js, the "link in bio" page: LinkTreeApp fetches       *)
(* links.json, projects the profile onto the page's slots and renders the  *)
(* links as cards in #linksContainer; a failure anywhere shows the error   *)
(* view.  JavaScript values are modelled as follows: a string is a TLA+    *)
(* string, the other primitives are the sentinels below, an icon token is  *)
(* a record holding its characters (getIcon looks at them one by one).     *)
(* The page is taken to have its #linksContainer; the profile slots may be *)
(* missing.  The two document-level listeners of the script (smooth scroll *)
(* on "#" anchors, Escape to blur) touch none of the state modelled here   *)
(* and are left out.                                                       *)
(***************************************************************************)
EXTENDS Naturals, Sequences, FiniteSets, TLC

VARIABLES
    resource,     \* what the server holds at CONFIG.linksFile (never written)
    present,      \* the ids of the profile slots the page markup has
    readyState,   \* document.readyState
    pc,           \* where the initialization sequence stands
    fetchCount,   \* the number of calls of fetch issued so far
    error,        \* the error travelling to init's catch block
    page,         \* content of #profileImage, #profileName, #profileTitle, #profileBio
                  \* and document.title
    container,    \* the children of #linksContainer, in document order
    activeLinks,  \* renderLinks' local: the filtered records
    gtag,         \* whether a global gtag is defined (typeof gtag !== 'undefined')
    console,      \* the calls of console.log and console.error, in order
    gtagEvents,   \* the calls of gtag, in order
    clickTrace    \* the clicks on cards so far: which card, and gtag at that time

vars == <<resource, present, readyState, pc, fetchCount, error, page,
          container, activeLinks, gtag, console, gtagEvents, clickTrace>>

(***************************************************************************)
(* Bounds of the model.                                                    *)
(***************************************************************************)
\* the longest links array of a document
MaxLinks == 2
\* the number of clicks the viewer makes
MaxClicks == 3
\* the longest icon token built freely from ShortAlphabet
MaxTokenLen == 2

(***************************************************************************)
(* JavaScript values.                                                      *)
(***************************************************************************)
Undefined == "<undefined>"
JsTrue == "<true>"
JsFalse == "<false>"
JsZero == "<0>"

\* ToBoolean of a primitive: undefined, false, 0 and "" are falsy.
Truthy(v) == v \notin {Undefined, JsFalse, JsZero, ""}

\* a || b
OrElse(a, b) == IF Truthy(a) THEN a ELSE b

(***************************************************************************)
(* Strings as getIcon sees them.  A character is a one-character TLA+      *)
(* string, or the name "U+XXXX" of a code point outside Basic Latin.       *)
(***************************************************************************)
SymbolCodePoint ==
    [c \in {"U+1F517", "U+1F680", "U+1F1FA", "U+2708", "U+FE0F"} |->
        CASE c = "U+1F517" -> 128279
          [] c = "U+1F680" -> 128640
          [] c = "U+1F1FA" -> 127482
          [] c = "U+2708" -> 9992
          [] c = "U+FE0F" -> 65039]

\* Basic Latin characters are below every bound they are compared with.
CodePoint(c) == IF c \in DOMAIN SymbolCodePoint THEN SymbolCodePoint[c] ELSE 0

\* UTF-16 code units of a character: two beyond the Basic Multilingual Plane.
Units(c) == IF CodePoint(c) > 65535 THEN 2 ELSE 1

\* the character class [\u{1F300}-\u{1F9FF}] of getIcon's test
PictographicFirst == 127744
PictographicLast == 129535

UpperCase == <<"A", "B", "C", "D", "E", "F", "G", "H", "I", "J", "K", "L", "M",
               "N", "O", "P", "Q", "R", "S", "T", "U", "V", "W", "X", "Y", "Z">>
LowerCase == <<"a", "b", "c", "d", "e", "f", "g", "h", "i", "j", "k", "l", "m",
               "n", "o", "p", "q", "r", "s", "t", "u", "v", "w", "x", "y", "z">>
WhiteSpace == {" ", "\t"}

\* the lower-case letter of each upper-case letter
LowerOf ==
    [c \in {UpperCase[i] : i \in 1..Len(UpperCase)} |->
        LowerCase[CHOOSE i \in 1..Len(UpperCase) : UpperCase[i] = c]]

LowerChar(c) == IF c \in DOMAIN LowerOf THEN LowerOf[c] ELSE c

\* String.prototype.toLowerCase
toLowerCase(chars) == [i \in 1..Len(chars) |-> LowerChar(chars[i])]

\* the characters of chars before position i (after it) are all white space
BlankBefore(chars, i) == \A j \in 1..(i - 1) : chars[j] \in WhiteSpace
BlankAfter(chars, i) == \A j \in (i + 1)..Len(chars) : chars[j] \in WhiteSpace

\* String.prototype.trim: from the first to the last character that is no white space
trim(chars) ==
    IF \A i \in 1..Len(chars) : chars[i] \in WhiteSpace THEN <<>>
    ELSE SubSeq(chars,
                CHOOSE i \in 1..Len(chars) :
                    chars[i] \notin WhiteSpace /\ BlankBefore(chars, i),
                CHOOSE i \in 1..Len(chars) :
                    chars[i] \notin WhiteSpace /\ BlankAfter(chars, i))

\* the string a sequence of characters spells (a property key, a text)
Join(chars) ==
    LET spelled[n \in 0..Len(chars)] ==
            IF n = 0 THEN "" ELSE spelled[n - 1] \o chars[n]
    IN spelled[Len(chars)]

\* String.prototype.length, in UTF-16 code units
Length(chars) == Len(chars) + Cardinality({i \in 1..Len(chars) : Units(chars[i]) = 2})

(***************************************************************************)
(* Icon tokens: absent, a string, or (JSON allows it) a number.            *)
(***************************************************************************)
NoIcon == [kind |-> "undefined"]
StringIcon(chars) == [kind |-> "string", chars |-> chars]
NumberIcon == [kind |-> "number"]

IconTruthy(iconName) ==
    \/ iconName.kind = "number"
    \/ iconName.kind = "string" /\ iconName.chars # <<>>

ICON_MAP ==
    [portfolio |-> "U+1F4BC", resume |-> "U+1F4C4", linkedin |-> "U+1F4BC",
     blog |-> "U+270D U+FE0F", github |-> "U+1F468 U+200D U+1F4BB",
     email |-> "U+2709 U+FE0F", twitter |-> "U+1F426", website |-> "U+1F310",
     youtube |-> "U+1F4FA", medium |-> "U+1F4DD", dribbble |-> "U+1F3A8",
     behance |-> "U+1F3A8", instagram |-> "U+1F4F8", facebook |-> "U+1F465",
     discord |-> "U+1F4AC", slack |-> "U+1F4AC", telegram |-> "U+2708 U+FE0F",
     whatsapp |-> "U+1F4AC", phone |-> "U+1F4DE", calendar |-> "U+1F4C5",
     research |-> "U+1F52C", publication |-> "U+1F4DA", project |-> "U+1F680",
     default |-> "U+1F517"]

\* ICON_MAP is an object literal: a key it does not own is looked up on
\* Object.prototype.  These are the inherited keys a lower-cased name can spell.
ObjectPrototype ==
    ("constructor" :> "function Object() { [native code] }")
        @@ ("__proto__" :> "[object Object]")

\* ICON_MAP[key]
IconMapGet(key) ==
    IF key \in DOMAIN ICON_MAP THEN ICON_MAP[key]
    ELSE IF key \in DOMAIN ObjectPrototype THEN ObjectPrototype[key]
    ELSE Undefined

\* iconName.length <= 3: the length of a number is undefined, and undefined <= 3 is false
LengthAtMost3(iconName) == iconName.kind = "string" /\ Length(iconName.chars) <= 3

\* /[\u{1F300}-\u{1F9FF}]/u.test(iconName)
TestPictographic(iconName) ==
    \E i \in 1..Len(iconName.chars) :
        /\ CodePoint(iconName.chars[i]) >= PictographicFirst
        /\ CodePoint(iconName.chars[i]) <= PictographicLast

Return(v) == [threw |-> FALSE, value |-> v]
Throw(e) == [threw |-> TRUE, value |-> e]

getIcon(iconName) ==
    IF ~IconTruthy(iconName) THEN Return(ICON_MAP.default)
    ELSE IF LengthAtMost3(iconName) /\ TestPictographic(iconName)
    THEN Return(Join(iconName.chars))
    ELSE IF iconName.kind # "string"
    THEN Throw("TypeError: iconName.toLowerCase is not a function")
    ELSE LET normalizedName == Join(trim(toLowerCase(iconName.chars)))
         IN Return(OrElse(IconMapGet(normalizedName), ICON_MAP.default))

(***************************************************************************)
(* The page: the profile slots and their pre-load content, the container.  *)
(***************************************************************************)
SlotIds == {"profileImage", "profileName", "profileTitle", "profileBio"}

\* what the markup shows before the script runs
DefaultPage ==
    [profileImage |-> [src |-> "placeholder.png", alt |-> "Profile"],
     profileName |-> "Your Name",
     profileTitle |-> "Your Title",
     profileBio |-> "Your bio",
     docTitle |-> "My Links"]

LoadingMessage == [kind |-> "loading", text |-> "Loading links..."]
NoLinksPlaceholder == [kind |-> "placeholder", text |-> "No links available"]
ErrorView == [kind |-> "error", text |-> "Error loading links"]

Cards(nodes) == SelectSeq(nodes, LAMBDA n : n.kind = "card")

(***************************************************************************)
(* updateProfile, on the page's slots and title.                           *)
(***************************************************************************)
NoProfile == [kind |-> "undefined"]

\* mutant: a field without a value clears its slot
SetTextClears(id, value, prior) ==
    IF id \in present THEN (IF Truthy(value) THEN value ELSE "") ELSE prior

\* if (value) { const el = document.getElementById(id); if (el) el.textContent = value; }
SetText(id, value, prior) == IF Truthy(value) /\ id \in present THEN value ELSE prior

SetImage(profile, prior) ==
    IF Truthy(profile.image) /\ "profileImage" \in present
    THEN [src |-> profile.image, alt |-> OrElse(profile.name, "Profile Picture")]
    ELSE prior

SetDocTitle(profile, prior) ==
    IF Truthy(profile.name)
    THEN profile.name \o " | " \o OrElse(profile.title, "Links")
    ELSE prior

\* the page after updateProfile(profile), from the page `before` it
updateProfile(profile, before) ==
    IF profile.kind = "undefined" THEN before
    ELSE [profileImage |-> SetImage(profile, before.profileImage),
          profileName |-> SetText("profileName", profile.name, before.profileName),
          profileTitle |-> SetText("profileTitle", profile.title, before.profileTitle),
          profileBio |-> SetText("profileBio", profile.bio, before.profileBio),
          docTitle |-> SetDocTitle(profile, before.docTitle)]

(***************************************************************************)
(* renderLinks and createLinkCard.                                         *)
(***************************************************************************)
NullLink == [kind |-> "null"]

\* mutant: the empty array is not checked for
NoLinksFalsyOnly(links) == links.kind = "undefined"

\* !links || links.length === 0  (the length of a non-array object is undefined)
NoLinks(links) ==
    \/ links.kind = "undefined"
    \/ links.kind = "array" /\ Len(links.items) = 0

\* mutant: the loading message is not cleared
NotCleared(nodes) == nodes

\* this.linksContainer.innerHTML = '': the container without its children
Cleared(nodes) == <<>>

\* mutant: the filter keeps the records whose active is truthy
IsActiveTruthy(link) == Truthy(link.active)

\* link.active !== false
IsActive(link) == link.active # JsFalse

\* links.filter(link => link.active !== false): reading .active of null throws,
\* and so does calling .filter on an object that is no array
FilterActive(links) ==
    IF links.kind # "array"
    THEN Throw("TypeError: links.filter is not a function")
    ELSE IF \E i \in 1..Len(links.items) : links.items[i].kind = "null"
    THEN Throw("TypeError: Cannot read properties of null (reading 'active')")
    ELSE Return(SelectSeq(links.items, IsActive))

\* mutant: every card gets the click listener
AlwaysListens(link) == TRUE

\* if (link.analytics) card.addEventListener('click', ...)
HasClickListener(link) == Truthy(link.analytics)

createLinkCard(link) ==
    LET icon == getIcon(link.icon)
    IN IF icon.threw THEN icon
       ELSE Return([kind |-> "card",
                    href |-> link.url,
                    target |-> "_blank",
                    rel |-> "noopener noreferrer",
                    ariaLabel |-> link.title,
                    listener |-> HasClickListener(link),
                    link |-> link,
                    icon |-> icon.value,
                    title |-> link.title,
                    description |-> IF Truthy(link.description)
                                    THEN <<link.description>> ELSE <<>>,
                    arrow |-> "U+2192"])

(***************************************************************************)
(* The server's answer and the document.                                   *)
(***************************************************************************)
\* mutant: the status of the response is not looked at
ResponseOkUnchecked(res) == TRUE

\* response.ok
ResponseOk(res) == res.status = "ok"

\* data.profile, data.links: undefined on a primitive, a TypeError on null
Property(data, name) ==
    IF data.kind = "null"
    THEN Throw("TypeError: Cannot read properties of null (reading '" \o name \o "')")
    ELSE IF data.kind = "object" THEN Return(data[name])
    ELSE Return([kind |-> "undefined"])

\* mutant: the rendering steps yield to the event loop too
SuspendedAnywhere == TRUE

\* the event loop is idle: the initialization sequence is suspended or over
Suspended == pc \in {"script", "DOMContentLoaded", "fetch", "json", "rendered", "errorShown"}

ConsoleError(what, e) == [level |-> "error", args |-> <<what, e>>]
ConsoleLog(a, b, c) == [level |-> "log", args |-> <<a, b, c>>]

(***************************************************************************)
(* The documents the model is run on.                                      *)
(***************************************************************************)
Profile(image, name, title, bio) ==
    [kind |-> "object", image |-> image, name |-> name, title |-> title, bio |-> bio]

Link(title, url, description, icon, active, analytics) ==
    [kind |-> "object", title |-> title, url |-> url, description |-> description,
     icon |-> icon, active |-> active, analytics |-> analytics]

Document(profile, links) == [kind |-> "object", profile |-> profile, links |-> links]

ArraysOf(S, n) == UNION {[1..k -> S] : k \in 0..n}

\* links: absent, an object that is no array, or an array of at most n records
LinksValues(S, n) ==
    {[kind |-> "undefined"], [kind |-> "object"]}
        \cup {[kind |-> "array", items |-> a] : a \in ArraysOf(S, n)}

GithubIcon == StringIcon(<<"g", "i", "t", "h", "u", "b">>)

\* Tracked records A with every value of `active`; untracked records B, active or
\* not, with and without an icon that is no string; and a null entry.
LinkRecords ==
    {Link("A", "https://a.example", "about A", GithubIcon, a, JsTrue) :
        a \in {Undefined, JsTrue, JsFalse, JsZero}}
    \cup {Link("B", "https://b.example", Undefined, i, a, Undefined) :
        i \in {NoIcon, NumberIcon}, a \in {Undefined, JsFalse}}
    \cup {NullLink}

FullProfile == Profile("me.png", "Ada", "Engineer", "Hello")
ProfilesFew == {NoProfile, FullProfile, Profile(Undefined, "Ada", Undefined, Undefined)}
ProfilesAll ==
    {NoProfile}
    \cup {Profile(i, n, t, b) : i \in {Undefined, "", "me.png"}, n \in {Undefined, "", "Ada"},
                                t \in {Undefined, "", "Engineer"}, b \in {Undefined, "", "Hello"}}

SampleLinks ==
    [kind |-> "array",
     items |-> <<Link("A", "https://a.example", "about A", GithubIcon, Undefined, JsTrue),
                 Link("B", "https://b.example", Undefined, NoIcon, Undefined, Undefined)>>]
SampleDocument == Document(FullProfile, SampleLinks)

Unreachable == [status |-> "unreachable"]
Response(status, body) == [status |-> status, body |-> body]
InvalidBody == [kind |-> "invalid"]

\* every way the load can fail, and one document that renders
CoreResources ==
    {Unreachable,
     Response("notOk", InvalidBody), Response("notOk", SampleDocument),
     Response("ok", InvalidBody), Response("ok", [kind |-> "null"]),
     Response("ok", [kind |-> "number"]), Response("ok", SampleDocument)}

MainResources ==
    CoreResources
    \cup {Response("ok", Document(p, l)) :
            p \in ProfilesFew, l \in LinksValues(LinkRecords, MaxLinks)}

\* every way the load can end, with one profile
LoadResources ==
    CoreResources
    \cup {Response("ok", Document(FullProfile, l)) : l \in LinksValues(LinkRecords, MaxLinks)}

ProfileResources ==
    CoreResources \cup {Response("ok", Document(p, SampleLinks)) : p \in ProfilesAll}

\* Icon tokens: every string of at most MaxTokenLen characters of ShortAlphabet,
\* and the words below as written, capitalized and in capitals, bare and padded.
ShortAlphabet == {"U+1F517", "U+1F1FA", "U+2708", "U+FE0F", " ", "g"}

UpperChar(c) ==
    IF \E i \in 1..Len(LowerCase) : LowerCase[i] = c
    THEN UpperCase[CHOOSE i \in 1..Len(LowerCase) : LowerCase[i] = c]
    ELSE c

Words ==
    {<<"g", "i", "t", "h", "u", "b">>, <<"e", "m", "a", "i", "l">>,
     <<"d", "e", "f", "a", "u", "l", "t">>, <<"f", "o", "o">>,
     <<"c", "o", "n", "s", "t", "r", "u", "c", "t", "o", "r">>,
     <<"_", "_", "p", "r", "o", "t", "o", "_", "_">>,
     <<"t", "o", "S", "t", "r", "i", "n", "g">>,
     <<"s", "l", "a", "c", "k", " ", "x">>}

Spellings(w) ==
    {w, [i \in 1..Len(w) |-> UpperChar(w[i])],
     [i \in 1..Len(w) |-> IF i = 1 THEN UpperChar(w[i]) ELSE w[i]]}

IconTokens ==
    ArraysOf(ShortAlphabet, MaxTokenLen)
    \cup {l \o v \o r : l \in {<<>>, <<" ">>}, r \in {<<>>, <<"\t", " ">>},
                        v \in UNION {Spellings(w) : w \in Words}}

IconResources ==
    CoreResources
    \cup {Response("ok", Document(NoProfile,
              [kind |-> "array",
               items |-> <<Link("A", "https://a.example", Undefined, StringIcon(t),
                                Undefined, Undefined)>>])) : t \in IconTokens}

(***************************************************************************)
(* The initial states: before the script runs.                             *)
(***************************************************************************)
InitWith(resources, presents) ==
    /\ resource \in resources
    /\ present \in presents
    /\ readyState \in {"loading", "complete"}
    /\ pc = "script"
    /\ fetchCount = 0
    /\ error = "none"
    /\ page = DefaultPage
    /\ container = <<LoadingMessage>>
    /\ activeLinks = <<>>
    /\ gtag = FALSE
    /\ console = <<>>
    /\ gtagEvents = <<>>
    /\ clickTrace = <<>>

Init == InitWith(MainResources, {SlotIds, {}})

InitProfile == InitWith(ProfileResources, SUBSET SlotIds)

InitIcon == InitWith(IconResources, {SlotIds})

InitLoad == InitWith(LoadResources, {SlotIds})

(***************************************************************************)
(* The initialization sequence.                                            *)
(***************************************************************************)
\* new LinkTreeApp(): the constructor calls init, which calls loadJSON, which
\* issues the fetch and suspends
LinkTreeApp ==
    /\ fetchCount' = fetchCount + 1
    /\ pc' = "fetch"

\* the script's top level: construct now, or once the DOM is loaded
RunScript ==
    /\ pc = "script"
    /\ IF readyState = "loading"
       THEN pc' = "DOMContentLoaded" /\ fetchCount' = fetchCount
       ELSE LinkTreeApp
    /\ console' = Append(console, [level |-> "log", args |-> <<"LinkTree App v1.0.0">>])
    /\ UNCHANGED <<resource, present, readyState, error, page, container,
                   activeLinks, gtag, gtagEvents, clickTrace>>

DOMContentLoaded ==
    /\ pc = "DOMContentLoaded"
    /\ readyState' = "interactive"
    /\ LinkTreeApp
    /\ UNCHANGED <<resource, present, error, page, container, activeLinks,
                   gtag, console, gtagEvents, clickTrace>>

\* loadJSON's catch block: log and rethrow to init's catch block
LoaderFails(e) ==
    /\ console' = Append(console, ConsoleError("Error loading JSON:", e))
    /\ error' = e
    /\ pc' = "catch"

\* await fetch(filename) settles
FetchSettle ==
    /\ pc = "fetch"
    /\ \/ /\ resource.status = "unreachable"
          /\ LoaderFails("TypeError: Failed to fetch")
       \/ /\ resource.status # "unreachable"
          /\ ~ResponseOk(resource)
          /\ LoaderFails("Error: Failed to load links.json")
       \/ /\ resource.status # "unreachable"
          /\ ResponseOk(resource)
          /\ pc' = "json"
          /\ UNCHANGED <<console, error>>
    /\ UNCHANGED <<resource, present, readyState, fetchCount, page, container,
                   activeLinks, gtag, gtagEvents, clickTrace>>

\* await response.json() settles
JsonSettle ==
    /\ pc = "json"
    /\ IF resource.body.kind = "invalid"
       THEN LoaderFails("SyntaxError: Unexpected token")
       ELSE pc' = "updateProfile" /\ UNCHANGED <<console, error>>
    /\ UNCHANGED <<resource, present, readyState, fetchCount, page, container,
                   activeLinks, gtag, gtagEvents, clickTrace>>

\* init: this.updateProfile(data.profile)
InitUpdateProfile ==
    /\ pc = "updateProfile"
    /\ LET profile == Property(resource.body, "profile")
       IN IF profile.threw
          THEN error' = profile.value /\ pc' = "catch" /\ page' = page
          ELSE page' = updateProfile(profile.value, page) /\ pc' = "renderLinks"
                 /\ error' = error
    /\ UNCHANGED <<resource, present, readyState, fetchCount, container,
                   activeLinks, gtag, console, gtagEvents, clickTrace>>

\* init: this.renderLinks(data.links), up to the forEach
renderLinks ==
    /\ pc = "renderLinks"
    /\ LET links == Property(resource.body, "links").value
           filtered == FilterActive(links)
       IN IF NoLinks(links)
          THEN container' = <<NoLinksPlaceholder>> /\ pc' = "rendered"
                 /\ UNCHANGED <<activeLinks, error>>
          ELSE /\ container' = Cleared(container)
               /\ IF filtered.threw
                  THEN error' = filtered.value /\ pc' = "catch" /\ activeLinks' = activeLinks
                  ELSE activeLinks' = filtered.value /\ pc' = "forEach" /\ error' = error
    /\ UNCHANGED <<resource, present, readyState, fetchCount, page, gtag,
                   console, gtagEvents, clickTrace>>

\* one turn of activeLinks.forEach: build the next card and append it
forEach ==
    /\ pc = "forEach"
    /\ LET index == Len(Cards(container))
       IN IF index = Len(activeLinks)
          THEN pc' = "rendered" /\ UNCHANGED <<container, error>>
          ELSE \E link \in {activeLinks[index + 1]} :
               \E linkCard \in {createLinkCard(link)} :
                  IF linkCard.threw
                  THEN error' = linkCard.value /\ pc' = "catch" /\ container' = container
                  ELSE container' = Append(container, linkCard.value)
                         /\ UNCHANGED <<pc, error>>
    /\ UNCHANGED <<resource, present, readyState, fetchCount, page, activeLinks,
                   gtag, console, gtagEvents, clickTrace>>

\* mutant: the catch block tries the load once more
handleErrorRetries ==
    /\ pc = "catch"
    /\ IF fetchCount < 2
       THEN LinkTreeApp /\ UNCHANGED <<console, container>>
       ELSE /\ console' = Append(console, ConsoleError("Application error:", error))
            /\ container' = <<ErrorView>>
            /\ pc' = "errorShown"
            /\ fetchCount' = fetchCount
    /\ UNCHANGED <<resource, present, readyState, error, page,
                   activeLinks, gtag, gtagEvents, clickTrace>>

\* mutant: the error view is appended to what the container holds
handleErrorAppends ==
    /\ pc = "catch"
    /\ console' = Append(console, ConsoleError("Application error:", error))
    /\ container' = Append(container, ErrorView)
    /\ pc' = "errorShown"
    /\ UNCHANGED <<resource, present, readyState, fetchCount, error, page,
                   activeLinks, gtag, gtagEvents, clickTrace>>

\* init's catch block
handleError ==
    /\ pc = "catch"
    /\ console' = Append(console, ConsoleError("Application error:", error))
    /\ container' = <<ErrorView>>
    /\ pc' = "errorShown"
    /\ UNCHANGED <<resource, present, readyState, fetchCount, error, page,
                   activeLinks, gtag, gtagEvents, clickTrace>>

(***************************************************************************)
(* Events after the initialization sequence.                               *)
(***************************************************************************)
trackClick(link) ==
    /\ console' = Append(console, ConsoleLog("Link clicked:", link.title, link.url))
    /\ gtagEvents' =
         IF gtag
         THEN Append(gtagEvents, [name |-> "event", action |-> "click",
                                  event_category |-> "Link",
                                  event_label |-> link.title, value |-> link.url])
         ELSE gtagEvents

\* the viewer clicks the i-th child of the container, a card
Click(i) ==
    /\ Suspended
    /\ Len(clickTrace) < MaxClicks
    /\ i \in 1..Len(container)
    /\ container[i].kind = "card"
    /\ clickTrace' = Append(clickTrace, [card |-> i, gtag |-> gtag])
    /\ IF container[i].listener
       THEN trackClick(container[i].link)
       ELSE UNCHANGED <<console, gtagEvents>>
    /\ UNCHANGED <<resource, present, readyState, pc, fetchCount, error, page,
                   container, activeLinks, gtag>>

\* the hosting page's analytics script defines the global gtag
DefineGtag ==
    /\ Suspended
    /\ ~gtag
    /\ gtag' = TRUE
    /\ UNCHANGED <<resource, present, readyState, pc, fetchCount, error, page,
                   container, activeLinks, console, gtagEvents, clickTrace>>

Next ==
    \/ RunScript
    \/ DOMContentLoaded
    \/ FetchSettle
    \/ JsonSettle
    \/ InitUpdateProfile
    \/ renderLinks
    \/ forEach
    \/ handleError
    \/ \E i \in 1..MaxLinks : Click(i)
    \/ DefineGtag

Spec == Init /\ [][Next]_vars

SpecProfile == InitProfile /\ [][Next]_vars

SpecIcon == InitIcon /\ [][Next]_vars

\* a step the browser takes without waiting for the network or the viewer: the
\* script's own synchronous steps, and the DOMContentLoaded event
Scheduled ==
    \/ RunScript
    \/ DOMContentLoaded
    \/ InitUpdateProfile
    \/ renderLinks
    \/ forEach
    \/ handleError

\* Scheduled steps are taken; nothing bounds the time the network takes.
FairSpec == InitLoad /\ [][Next]_vars /\ WF_vars(Scheduled)

(***************************************************************************)
(* What the claims speak of.                                               *)
(***************************************************************************)
Terminal == pc \in {"rendered", "errorShown"}

\* the load fails: the resource is unreachable, answers with a non-success
\* status, or its body is no JSON
LoadFails ==
    \/ resource.status # "ok"
    \/ resource.body.kind = "invalid"

\* the load delivers a document (an object)
HasDocument == ~LoadFails /\ resource.body.kind = "object"

DocLinks == resource.body.links
DocProfile == resource.body.profile

\* a link record of the data model: an object whose icon, if any, is a string
IsLinkRecord(r) == r.kind = "object" /\ r.icon.kind \in {"undefined", "string"}

NonEmptyLinks ==
    /\ HasDocument
    /\ DocLinks.kind = "array"
    /\ Len(DocLinks.items) > 0

AllLinkRecords == \A i \in 1..Len(DocLinks.items) : IsLinkRecord(DocLinks.items[i])

\* the records whose active is not strictly false, in the order of the input
Surviving(items) == SelectSeq(items, LAMBDA r : r.active # JsFalse)

\* the page once updateProfile has returned
PageAfterProfile ==
    IF resource.body.kind = "object"
    THEN updateProfile(DocProfile, DefaultPage)
    ELSE DefaultPage

\* updateProfile has returned
ProfileDone ==
    /\ ~LoadFails
    /\ resource.body.kind # "null"
    /\ pc \in {"renderLinks", "forEach", "rendered", "catch", "errorShown"}

(* C1: for a non-empty sequence of link records, the children of the
   container after renderLinks are cards only, one per record whose active
   is not strictly false, in the order of the input. *)
C1_CardsAreSurvivingRecords ==
    (NonEmptyLinks /\ AllLinkRecords /\ Terminal) =>
        /\ pc = "rendered"
        /\ Len(container) = Len(Surviving(DocLinks.items))
        /\ \A i \in 1..Len(container) :
              /\ container[i].kind = "card"
              /\ container[i].link = Surviving(DocLinks.items)[i]
              /\ container[i].href = Surviving(DocLinks.items)[i].url
              /\ container[i].title = Surviving(DocLinks.items)[i].title

\* of two records the first is dropped (active: false), the second kept
\* although its active is the falsy 0
C1_Witness ==
    /\ pc = "rendered"
    /\ NonEmptyLinks /\ AllLinkRecords
    /\ Len(DocLinks.items) = 2
    /\ DocLinks.items[1].active = JsFalse
    /\ DocLinks.items[2].active = JsZero
    /\ Len(container) = 1

AppState ==
    CASE pc \in {"script", "DOMContentLoaded"} -> "Idle"
      [] pc = "rendered" -> "Rendered"
      [] pc = "errorShown" -> "ErrorShown"
      [] OTHER -> "Loading"

\* the read has settled and init runs on
ReadSettled == pc \in {"updateProfile", "renderLinks", "forEach", "catch"}

(* C2: the application moves Idle -> Loading -> Rendered or ErrorShown and
   by no other transition; Rendered and ErrorShown are left by no step, and
   page and container no longer change there; fetch is called exactly once
   per page load; once the read has settled a terminal state is reached. *)
C2_StateMachine ==
    /\ [][\/ AppState' = AppState
          \/ <<AppState, AppState'>> \in {<<"Idle", "Loading">>,
                                          <<"Loading", "Rendered">>,
                                          <<"Loading", "ErrorShown">>}]_vars
    /\ [][Terminal => (pc' = pc /\ container' = container /\ page' = page
                       /\ fetchCount' = fetchCount)]_vars
    /\ [](fetchCount = IF AppState = "Idle" THEN 0 ELSE 1)
    /\ (ReadSettled ~> Terminal)

\* the error view is shown and the page lives on: gtag gets defined afterwards
C2_Witness ==
    /\ pc = "errorShown"
    /\ fetchCount = 1
    /\ gtag
    /\ readyState = "interactive"

(* C3: after a failure of the Loader, of init's reading of the document or
   of the Link Renderer, the container holds the error view alone, and the
   page title and the profile slots are as they were when the failure was
   raised: untouched if updateProfile had not run, as updateProfile left
   them otherwise. *)
C3_ErrorViewAlone ==
    pc = "errorShown" =>
        /\ container = <<ErrorView>>
        /\ page = IF LoadFails \/ resource.body.kind = "null"
                  THEN DefaultPage ELSE PageAfterProfile

\* the second card fails after the first was appended and the profile shown
C3_Witness ==
    /\ pc = "errorShown"
    /\ page # DefaultPage
    /\ Len(activeLinks) = 2
    /\ activeLinks[1].icon.kind = "string"
    /\ activeLinks[2].icon.kind = "number"

(* C4: when the response is not successful, or the body does not parse (or
   the request fails), neither updateProfile nor renderLinks runs: the page
   title and every profile slot stay at their pre-load values, no card is
   ever in the container, and the container ends with the error view. *)
C4_FailedLoadLeavesPage ==
    LoadFails =>
        /\ pc \notin {"updateProfile", "renderLinks", "forEach", "rendered"}
        /\ page = DefaultPage
        /\ activeLinks = <<>>
        /\ Cards(container) = <<>>
        /\ pc = "errorShown" => container = <<ErrorView>>

\* a non-success response whose body would have rendered
C4_Witness ==
    /\ pc = "errorShown"
    /\ resource.status = "notOk"
    /\ resource.body = SampleDocument

\* the field is in the record (whatever its value)
FieldPresent(v) == v # Undefined

\* a text slot changed only if its field is present and the slot exists, and
\* shows the field's value if that is a non-empty string
TextSlotOk(id, value) ==
    /\ page[id] # DefaultPage[id] => (FieldPresent(value) /\ id \in present)
    /\ (Truthy(value) /\ id \in present) => page[id] = value

(* C5: after updateProfile, a slot differs from its prior content only if
   its field is present in the record and the slot exists (the page title
   only if name is present); a field with a non-empty value whose slot
   exists is shown in it (the image with name, or "Profile Picture", as its
   alternative text; the title as "name | title", or "name | Links");
   an absent record changes nothing, and updateProfile raises no error. *)
C5_OnlyPresentFieldsChange ==
    /\ (ProfileDone /\ ~(HasDocument /\ DocProfile.kind = "object")) => page = DefaultPage
    /\ (ProfileDone /\ HasDocument /\ DocProfile.kind = "object") =>
          /\ TextSlotOk("profileName", DocProfile.name)
          /\ TextSlotOk("profileTitle", DocProfile.title)
          /\ TextSlotOk("profileBio", DocProfile.bio)
          /\ page.profileImage # DefaultPage.profileImage =>
                (FieldPresent(DocProfile.image) /\ "profileImage" \in present)
          /\ (Truthy(DocProfile.image) /\ "profileImage" \in present) =>
                page.profileImage =
                    [src |-> DocProfile.image,
                     alt |-> IF Truthy(DocProfile.name) THEN DocProfile.name
                             ELSE "Profile Picture"]
          /\ page.docTitle # DefaultPage.docTitle => FieldPresent(DocProfile.name)
          /\ Truthy(DocProfile.name) =>
                page.docTitle = DocProfile.name \o " | " \o
                    (IF Truthy(DocProfile.title) THEN DocProfile.title ELSE "Links")
    /\ (HasDocument /\ DocLinks = SampleLinks /\ Terminal) => pc = "rendered"

\* name is present but its slot is missing, title is absent and its slot exists:
\* only the page title changed
C5_Witness ==
    /\ pc = "rendered"
    /\ HasDocument /\ DocProfile.kind = "object"
    /\ DocProfile.name = "Ada" /\ DocProfile.title = Undefined
    /\ DocProfile.bio = "" /\ DocProfile.image = Undefined
    /\ present = {"profileTitle", "profileBio"}
    /\ page = [DefaultPage EXCEPT !.docTitle = "Ada | Links"]

\* the reference the icon resolver is held to: the table's own names only
ReferenceIcon(token) ==
    IF token.kind = "undefined" THEN ICON_MAP.default
    ELSE IF Length(token.chars) <= 3 /\ TestPictographic(token)
    THEN Join(token.chars)
    ELSE IF Join(trim(toLowerCase(token.chars))) \in DOMAIN ICON_MAP
    THEN ICON_MAP[Join(trim(toLowerCase(token.chars)))]
    ELSE ICON_MAP.default

(* C6: for every token that is absent or a string, the glyph of the card
   is the reference's: the default glyph for an absent token, the token
   itself if it is at most 3 units long and holds a pictographic character,
   else the glyph the table maps the lower-cased, trimmed token to, and the
   default glyph if the table does not name it; and no token raises an
   error. *)
C6_IconIsReference ==
    /\ \A i \in 1..Len(container) :
          container[i].kind = "card" =>
              container[i].icon = ReferenceIcon(container[i].link.icon)
    /\ (NonEmptyLinks /\ AllLinkRecords) => pc \notin {"catch", "errorShown"}

(* C7: when the document's links is absent or an empty sequence, no card
   is built, no error is raised, and the application ends Rendered with the
   "No links available" placeholder as the container's only child. *)
C7_NoLinksPlaceholder ==
    (HasDocument /\ (DocLinks.kind = "undefined"
                        \/ (DocLinks.kind = "array" /\ DocLinks.items = <<>>))) =>
        /\ pc \notin {"forEach", "catch", "errorShown"}
        /\ Cards(container) = <<>>
        /\ Terminal => container = <<NoLinksPlaceholder>>

C7_Witness ==
    /\ pc = "rendered"
    /\ HasDocument
    /\ DocLinks.kind = "array" /\ DocLinks.items = <<>>
    /\ container = <<NoLinksPlaceholder>>

\* the record behind the card a click hit
ClickedRecord(c) == Surviving(DocLinks.items)[c.card]

\* the clicks on cards whose record has a truthy analytics, in order
TrackedClicks == SelectSeq(clickTrace, LAMBDA c : Truthy(ClickedRecord(c).analytics))

\* those of them made while gtag was defined
TrackedClicksWithGtag == SelectSeq(TrackedClicks, LAMBDA c : c.gtag)

ClickReports == SelectSeq(console, LAMBDA e : e.args[1] = "Link clicked:")

(* C8: the reports of clicks on the logging sink are, in order, one
   {title, url} for each click on a card whose record's analytics is truthy,
   and none for any other click; the calls of the external tracking function
   are, in order, one event {category "Link", label title, value url} for
   each of those clicks made while the function was defined; no click raises
   an error or changes the container, the profile slots or the title. *)
C8_ClickTracking ==
    clickTrace # <<>> =>
        /\ pc = "rendered"
        /\ NonEmptyLinks
        /\ Len(ClickReports) = Len(TrackedClicks)
        /\ \A k \in 1..Len(TrackedClicks) :
              ClickReports[k] =
                  [level |-> "log",
                   args |-> <<"Link clicked:", ClickedRecord(TrackedClicks[k]).title,
                              ClickedRecord(TrackedClicks[k]).url>>]
        /\ Len(gtagEvents) = Len(TrackedClicksWithGtag)
        /\ \A k \in 1..Len(TrackedClicksWithGtag) :
              /\ gtagEvents[k].event_category = "Link"
              /\ gtagEvents[k].event_label = ClickedRecord(TrackedClicksWithGtag[k]).title
              /\ gtagEvents[k].value = ClickedRecord(TrackedClicksWithGtag[k]).url
        /\ Len(container) = Len(Surviving(DocLinks.items))
        /\ \A i \in 1..Len(container) : container[i].link = Surviving(DocLinks.items)[i]
        /\ page = PageAfterProfile
        /\ error = "none"

\* a click on an untracked card, then clicks on a tracked card before and after
\* gtag is defined
C8_Witness ==
    /\ Len(clickTrace) = 3
    /\ ~Truthy(ClickedRecord(clickTrace[1]).analytics)
    /\ Truthy(ClickedRecord(clickTrace[2]).analytics) /\ ~clickTrace[2].gtag
    /\ Truthy(ClickedRecord(clickTrace[3]).analytics) /\ clickTrace[3].gtag
    /\ Len(ClickReports) = 2
    /\ Len(gtagEvents) = 1

\* the load is pending: the Loader has not returned the document
LoadPending == pc \in {"script", "DOMContentLoaded", "fetch", "json"}

\* the Error Presenter has run
ErrorPresented == \E k \in 1..Len(console) : console[k].args[1] = "Application error:"

(* C9: while the load is pending nothing is rendered; updateProfile starts
   from the untouched page and has returned before renderLinks touches the
   container; the Error Presenter has run exactly when the application ends
   ErrorShown, never when it ends Rendered; and the initialization sequence
   is suspended only in the Loader's network read: an event of the
   environment occurs only before the Loader returns or after the sequence
   has ended. *)
C9_RenderingAfterLoading ==
    /\ [](LoadPending => (page = DefaultPage /\ container = <<LoadingMessage>>))
    /\ [](pc = "updateProfile" => (page = DefaultPage /\ container = <<LoadingMessage>>))
    /\ []((container # <<LoadingMessage>> /\ pc # "errorShown") =>
              (ProfileDone /\ page = PageAfterProfile))
    /\ [](ErrorPresented <=> pc = "errorShown")
    /\ [](pc = "rendered" =>
              (error = "none" /\ \A i \in 1..Len(container) : container[i] # ErrorView))
    /\ [][(gtag' # gtag \/ clickTrace' # clickTrace) => (LoadPending \/ Terminal)]_vars

\* gtag is defined while the body of the response is being read
C9_Witness ==
    /\ pc = "json"
    /\ gtag
    /\ page = DefaultPage
    /\ container = <<LoadingMessage>>

IsPlaceholder == container = <<NoLinksPlaceholder>>
IsErrorView == container = <<ErrorView>>
IsCardList == \A i \in 1..Len(container) : container[i].kind = "card"

(* C10: in a terminal state the container holds exactly one of: the "No
   links available" placeholder alone, the error view alone, or cards only
   (possibly none); Rendered shows no error view and ErrorShown nothing else.
   For a non-empty links whose records all have active false the
   application ends Rendered with an empty container: the loading message
   is gone, there is no card and no placeholder. *)
C10_TerminalContainer ==
    Terminal =>
        /\ Cardinality({k \in {"placeholder", "error", "cards"} :
                \/ k = "placeholder" /\ IsPlaceholder
                \/ k = "error" /\ IsErrorView
                \/ k = "cards" /\ IsCardList}) = 1
        /\ IsErrorView <=> pc = "errorShown"
        /\ (/\ NonEmptyLinks
            /\ \A i \in 1..Len(DocLinks.items) :
                  /\ DocLinks.items[i].kind = "object"
                  /\ DocLinks.items[i].active = JsFalse)
           => (pc = "rendered" /\ container = <<>>)

\* two inactive records, one of them with an icon that is no string
C10_Witness ==
    /\ pc = "rendered"
    /\ container = <<>>
    /\ NonEmptyLinks
    /\ Len(DocLinks.items) = 2
    /\ DocLinks.items[1].active = JsFalse /\ DocLinks.items[2].active = JsFalse
    /\ DocLinks.items[2].icon.kind = "number"

====
